---- MODULE Spec2Model ----
(***************************************************************************)
(* Model of the fixed-point polyphase resampler of nrsc5                   *)
(* (src/src/resamp_q15.c): the polyphase filterbanks firpfb_q31 and        *)
(* firpfb_q15 (coefficient table, sliding window, push, execute) and the   *)
(* resampler resamp_q15 (timing state machine INTERP / BOUNDARY).          *)
(*                                                                         *)
(* The timing state of the resampler is held in C `float`s.  They are      *)
(* modelled as IEEE-754 binary32 values with round-to-nearest-even:        *)
(* a float is a record [s, m, e] of value (-1)^s * m * 2^e, with           *)
(* m = 0 (zero) or 2^23 <= m < 2^24.  Subnormals, infinities and NaN are   *)
(* not modelled; the rates of the model keep every value normal.           *)
(***************************************************************************)
EXTENDS Integers, Sequences, FiniteSets, TLC

(***************************************************************************)
(* Bounds of the model.                                                    *)
(***************************************************************************)
\* number of resamp_q15_execute calls explored after create
MaxCalls == 8
\* number of resamp_q15_set_rate calls explored after create
MaxSetRate == 2
\* loop iterations of one execute call that are followed; a call that needs
\* more is recorded as "runaway" and not followed further
MaxIter == 12
\* number of pushes explored in the filterbank specification: enough to fill
\* the window (WINDOW_SIZE - NUM_TAPS + 1 pushes), compact it and go on
MaxPush == 2050

(***************************************************************************)
(* Program constants.                                                      *)
(***************************************************************************)
WINDOW_SIZE == 2048
\* NUM_TAPS of the default build and of the USE_FAST_MATH build
NUM_TAPS_DEFAULT == 16
NUM_TAPS_FAST == 8
\* the tap count asserted by firpfb_q15_create
NUM_TAPS_Q15 == 16

(***************************************************************************)
(* binary32 arithmetic.                                                    *)
(***************************************************************************)
RECURSIVE BitLen(_)
BitLen(n) == IF n = 0 THEN 0 ELSE 1 + BitLen(n \div 2)

FZero == [s |-> 0, m |-> 0, e |-> 0]

\* round the exact value (-1)^s * (n + x) * 2^e to binary32, where
\* 0 <= n < 2^31 and x is 0 (sticky = FALSE) or some 0 < x < 1 (sticky = TRUE)
RoundF(s, n, e, sticky) ==
    IF n = 0 THEN FZero
    ELSE LET L == BitLen(n) IN
         IF L <= 24
         THEN [s |-> s, m |-> n * 2^(24 - L), e |-> e - (24 - L)]
         ELSE LET k    == L - 24
                  q    == n \div 2^k
                  r    == n % 2^k
                  half == 2^(k - 1)
                  up   == r > half \/ (r = half /\ (sticky \/ q % 2 = 1))
                  q2   == IF up THEN q + 1 ELSE q
              IN IF q2 = 2^24
                 THEN [s |-> s, m |-> 2^23, e |-> e + k + 1]
                 ELSE [s |-> s, m |-> q2, e |-> e + k]

\* (float)n for an int n
FOfInt(n) == IF n < 0 THEN RoundF(1, -n, 0, FALSE) ELSE RoundF(0, n, 0, FALSE)

FOne == FOfInt(1)

FNeg(a) == IF a.m = 0 THEN a ELSE [a EXCEPT !.s = 1 - a.s]

\* a + b
FAdd(a, b) ==
    IF a.m = 0 THEN b
    ELSE IF b.m = 0 THEN a
    ELSE LET aBig == a.e > b.e \/ (a.e = b.e /\ a.m >= b.m)
             big  == IF aBig THEN a ELSE b
             sml  == IF aBig THEN b ELSE a
             d    == big.e - sml.e
             A    == big.m * 64
             B    == IF d <= 6 THEN sml.m * 2^(6 - d)
                     ELSE IF d >= 31 THEN 0
                     ELSE sml.m \div 2^(d - 6)
             st   == d > 6 /\ (d >= 31 \/ sml.m % 2^(d - 6) # 0)
         IN IF big.s = sml.s THEN RoundF(big.s, A + B, big.e - 6, st)
            ELSE IF st THEN RoundF(big.s, A - B - 1, big.e - 6, TRUE)
            ELSE RoundF(big.s, A - B, big.e - 6, FALSE)

\* a - b
FSub(a, b) == FAdd(a, FNeg(b))

\* a * (float)k for a small unsigned k (k < 128)
FMulInt(a, k) == RoundF(a.s, a.m * k, a.e, FALSE)

\* the 26 fraction bits of rem / d, and the final remainder
RECURSIVE DivBits(_, _, _, _)
DivBits(rem, d, bits, acc) ==
    IF bits = 0 THEN <<acc, rem>>
    ELSE DivBits((2 * rem) % d, d, bits - 1, 2 * acc + ((2 * rem) \div d))

\* a / b  (b # 0)
FDiv(a, b) ==
    IF a.m = 0 THEN FZero
    ELSE LET q0 == a.m \div b.m
             qr == DivBits(a.m % b.m, b.m, 26, q0)
         IN RoundF((a.s + b.s) % 2, qr[1], a.e - b.e - 26, qr[2] # 0)

\* a < b
FLess(a, b) == FSub(a, b).s = 1

\* 0 <= a < 1
FInUnit(a) == a.m = 0 \/ (a.s = 0 /\ a.e <= -24)

\* floorf(a) as an integer (|a| < 2^31)
FloorInt(a) ==
    IF a.m = 0 THEN 0
    ELSE IF a.e >= 0 THEN (IF a.s = 0 THEN a.m * 2^a.e ELSE -(a.m * 2^a.e))
    ELSE IF a.e <= -24 THEN (IF a.s = 0 THEN 0 ELSE -1)
    ELSE IF a.s = 0 THEN a.m \div 2^(-a.e)
    ELSE -((a.m + 2^(-a.e) - 1) \div 2^(-a.e))


\* the 32-bit word of an `unsigned int` is held by its two's-complement
\* reading: a value u < 2^31 as u, a value u >= 2^31 as u - 2^32
\* (unsigned) a < (unsigned) n, for 0 <= n < 2^31
ULess(a, n) == a >= 0 /\ a < n

\* (float)b for the unsigned word b of reading b
UIntToFloat(b) ==
    IF b >= 0 THEN FOfInt(b)
    ELSE LET k == -b
             q == 2^24 - ((k + 255) \div 256)
             r == (256 - (k % 256)) % 256
         IN RoundF(0, 2 * q + (IF r >= 128 THEN 1 ELSE 0), 7, r % 128 # 0)

\* (unsigned int) of the integral float of value v.  For v < 0 the
\* conversion is undefined in C: a saturating conversion (AArch64 FCVTZU)
\* gives 0, a truncating 64-bit conversion (x86-64 CVTTSS2SI) the word 2^32 + v
FloatToUInt(v) == IF v >= 0 THEN {v} ELSE {0, v}

(***************************************************************************)
(* Samples.                                                                *)
(***************************************************************************)
\* the k-th input sample (k = 1, 2, ...) fed by the caller, a cint16_t
InputSample(k) == [r |-> k, i |-> -k]

\* calloc'ed window entry
ZeroSample == [r |-> 0, i |-> 0]

\* x.r = (int32_t)_x->r << 16; x.i = (int32_t)_x->i << 16
ToQ31(x) == [r |-> x.r * 65536, i |-> x.i * 65536]

\* The window array of a filterbank: WINDOW_SIZE entries that calloc zeroes.
\* It is held as the function from the indices written so far to the values
\* written; an entry never written reads as the zero calloc left there.
ZeroWindow == [t \in {} |-> ZeroSample]
WindowAt(w, t) == IF t \in DOMAIN w THEN w[t] ELSE ZeroSample
WindowPut(w, i, x) == [t \in DOMAIN w \cup {i} |-> IF t = i THEN x ELSE w[t]]

\* a struct field that malloc left unset
Uninit == [uninit |-> TRUE]

\* the outcome of a failed assert: the program aborts, no object is returned
Abort == [abort |-> TRUE]

(***************************************************************************)
(* Polyphase filterbank, Q31 tier.  The coefficient table holds, for every *)
(* slot, the index k of the prototype coefficient _h[k] whose quantised    *)
(* value the slot stores.  taps is the build's NUM_TAPS.  A failed assert  *)
(* aborts the program: the result is Abort.                                *)
(***************************************************************************)
\* mutant: the taps of a phase are stored in prototype order, not reversed
firpfb_q31_create_Unreversed(nf, h_len, taps) ==
    LET h_sub_len == h_len \div nf IN
    IF h_sub_len * nf # h_len THEN Abort
    ELSE IF h_sub_len # taps THEN Abort
    ELSE [nf        |-> nf,
          h_len     |-> h_len,
          h_sub_len |-> h_sub_len,
          h         |-> [t \in 0..(2 * h_len - 1) |->
                            LET i == (t \div 2) \div h_sub_len
                                j == (t \div 2) % h_sub_len
                            IN j * nf + i],
          window    |-> ZeroWindow,
          idx       |-> h_sub_len - 1]

firpfb_q31_create(nf, h_len, taps) ==
    LET h_sub_len == h_len \div nf IN
    IF h_sub_len * nf # h_len THEN Abort
    ELSE IF h_sub_len # taps THEN Abort
    ELSE [nf        |-> nf,
          h_len     |-> h_len,
          h_sub_len |-> h_sub_len,
          h         |-> [t \in 0..(2 * h_len - 1) |->
                            LET i == (t \div 2) \div h_sub_len
                                j == (t \div 2) % h_sub_len
                            IN (h_sub_len - 1 - j) * nf + i],
          window    |-> ZeroWindow,
          idx       |-> h_sub_len - 1]

\* mutant: the window is never compacted
firpfb_q31_push_NoCompaction(q, x) ==
    [q EXCEPT !.window = WindowPut(q.window, q.idx, x), !.idx = q.idx + 1]

firpfb_q31_push(q, x) ==
    LET c == q.idx = WINDOW_SIZE
        w == IF c
             THEN [t \in DOMAIN q.window \cup 0..(q.h_sub_len - 2) |->
                     IF t < q.h_sub_len - 1
                     THEN WindowAt(q.window, q.idx - q.h_sub_len + t)
                     ELSE q.window[t]]
             ELSE q.window
        i == IF c THEN q.h_sub_len - 1 ELSE q.idx
    IN [q EXCEPT !.window = WindowPut(w, i, x), !.idx = i + 1]

\* the operands dotprod_q31 is handed: n window entries from a, and the
\* coefficient slots b[0], b[2], ..., b[2(n-1)]
dotprod_q31(q, a, b, n) ==
    [win |-> [t \in 0..(n - 1) |-> WindowAt(q.window, a + t)],
     co  |-> [t \in 0..(n - 1) |-> q.h[b + 2 * t]]]

firpfb_q31_execute(q, f) ==
    dotprod_q31(q, q.idx - q.h_sub_len, f * 2 * q.h_sub_len, q.h_sub_len)

(***************************************************************************)
(* Polyphase filterbank, Q15 tier.                                         *)
(***************************************************************************)
\* mutant: the assert that h_len is a multiple of nf is left out
firpfb_q15_create_NoMultipleCheck(nf, h_len) ==
    LET h_sub_len == h_len \div nf IN
    IF h_sub_len # NUM_TAPS_Q15 THEN Abort
    ELSE [nf        |-> nf,
          h_len     |-> h_len,
          h_sub_len |-> h_sub_len,
          h         |-> [t \in 0..(2 * h_len - 1) |->
                            LET i == (t \div 2) \div h_sub_len
                                j == (t \div 2) % h_sub_len
                            IN (h_sub_len - 1 - j) * nf + i],
          window    |-> ZeroWindow,
          idx       |-> h_sub_len - 1]

firpfb_q15_create(nf, h_len) ==
    LET h_sub_len == h_len \div nf IN
    IF h_sub_len * nf # h_len THEN Abort
    ELSE IF h_sub_len # NUM_TAPS_Q15 THEN Abort
    ELSE [nf        |-> nf,
          h_len     |-> h_len,
          h_sub_len |-> h_sub_len,
          h         |-> [t \in 0..(2 * h_len - 1) |->
                            LET i == (t \div 2) \div h_sub_len
                                j == (t \div 2) % h_sub_len
                            IN (h_sub_len - 1 - j) * nf + i],
          window    |-> ZeroWindow,
          idx       |-> h_sub_len - 1]

firpfb_q15_push(q, x) ==
    LET c == q.idx = WINDOW_SIZE
        w == IF c
             THEN [t \in DOMAIN q.window \cup 0..(q.h_sub_len - 2) |->
                     IF t < q.h_sub_len - 1
                     THEN WindowAt(q.window, q.idx - q.h_sub_len + t)
                     ELSE q.window[t]]
             ELSE q.window
        i == IF c THEN q.h_sub_len - 1 ELSE q.idx
    IN [q EXCEPT !.window = WindowPut(w, i, x), !.idx = i + 1]

dotprod_q15(q, a, b, n) ==
    [win |-> [t \in 0..(n - 1) |-> WindowAt(q.window, a + t)],
     co  |-> [t \in 0..(n - 1) |-> q.h[b + 2 * t]]]

firpfb_q15_execute(q, f) ==
    dotprod_q15(q, q.idx - q.h_sub_len, f * 2 * q.h_sub_len, q.h_sub_len)


(***************************************************************************)
(* The SIMD dot products.  A result is held as its operands: the window    *)
(* samples read (win), the coefficient slots multiplied with their real    *)
(* parts (cor) and with their imaginary parts (coi), and the sign the sum  *)
(* comes out with.  The scalar dot products above multiply both parts of   *)
(* sample t with slot b[2t] and give the sum its own sign.  taps is the    *)
(* build's NUM_TAPS, fast its USE_FAST_MATH.                               *)
(***************************************************************************)
\* what a read outside the window array or outside the table gives
OutOfBounds == [oob |-> TRUE]
WindowRead(q, i) ==
    IF 0 <= i /\ i < WINDOW_SIZE THEN WindowAt(q.window, i) ELSE OutOfBounds
TableRead(q, i) == IF i \in DOMAIN q.h THEN q.h[i] ELSE OutOfBounds

\* the operands of a SIMD loop over cnt samples: lane 2t of the a vectors
\* is a[t].r and lane 2t + 1 is a[t].i, multiplied with b[2t] and b[2t + 1]
SimdOperands(q, a, b, cnt) ==
    [win |-> [t \in 0..(cnt - 1) |-> WindowRead(q, a + t)],
     cor |-> [t \in 0..(cnt - 1) |-> TableRead(q, b + 2 * t)],
     coi |-> [t \in 0..(cnt - 1) |-> TableRead(q, b + 2 * t + 1)]]

\* HAVE_NEON: 8 samples, and 8 more if NUM_TAPS == 16
dotprod_q31_neon(q, a, b, n, taps) ==
    [backend |-> "neon", ops |-> SimdOperands(q, a, b, taps), sign |-> 1]

\* the sign of (float)(1 << 31): the shift into the sign bit is undefined;
\* gcc builds yield INT_MIN, a negative shift factor
ShiftSigns == {-1, 1}

\* HAVE_SSE2: samples and coefficients are divided by shift, the sum of
\* their products is multiplied by shift: the outcomes
dotprod_q31_sse2(q, a, b, n, taps) ==
    { [backend |-> "sse2", ops |-> SimdOperands(q, a, b, taps),
       sign |-> sh * sh * sh] : sh \in ShiftSigns }

\* HAVE_NEON: 16 samples, and 16 more unless USE_FAST_MATH
dotprod_q15_neon(q, a, b, n, fast) ==
    [backend |-> "neon",
     ops |-> SimdOperands(q, a, b, IF fast THEN 16 ELSE 32), sign |-> 1]

\* firpfb_q31_execute / firpfb_q15_execute in the SIMD builds: the set of
\* results over the builds
firpfb_q31_execute_simd(q, f, taps) ==
    LET a == q.idx - q.h_sub_len
        b == f * 2 * q.h_sub_len
    IN { dotprod_q31_neon(q, a, b, q.h_sub_len, taps) }
       \cup dotprod_q31_sse2(q, a, b, q.h_sub_len, taps)

firpfb_q15_execute_simd(q, f, fast) ==
    { dotprod_q15_neon(q, q.idx - q.h_sub_len, f * 2 * q.h_sub_len,
                       q.h_sub_len, fast) }

(***************************************************************************)
(* Resampler.  q is the struct resamp_q15: fields rate, del, tau, bf, b,   *)
(* mu, y0, y1, npfb, pfb, state.  A filterbank output (y0, y1) is held as  *)
(* the operands of the dot product that produced it; an output sample as   *)
(* the operands of its linear interpolation.                               *)
(***************************************************************************)
\* mutant: the filterbank is handed the designed length n, not n - 1
resamp_q15_create_FullLength(m, np, taps) ==
    LET n == 2 * m * np + 1
        f == firpfb_q31_create(np, n, taps)
    IN IF f = Abort THEN Abort
       ELSE [rate  |-> FOfInt(1),
             del   |-> FOfInt(1),
             tau   |-> FZero,
             bf    |-> Uninit,
             b     |-> 0,
             mu    |-> FZero,
             y0    |-> Uninit,
             y1    |-> Uninit,
             npfb  |-> np,
             pfb   |-> f,
             state |-> "INTERP"]

\* mutant: mu is left as malloc returned it
resamp_q15_create_MuUnset(m, np, taps) ==
    LET n == 2 * m * np + 1
        f == firpfb_q31_create(np, n - 1, taps)
    IN IF f = Abort THEN Abort
       ELSE [rate  |-> FOfInt(1),
             del   |-> FOfInt(1),
             tau   |-> FZero,
             bf    |-> Uninit,
             b     |-> 0,
             mu    |-> Uninit,
             y0    |-> Uninit,
             y1    |-> Uninit,
             npfb  |-> np,
             pfb   |-> f,
             state |-> "INTERP"]

resamp_q15_create(m, np, taps) ==
    LET n == 2 * m * np + 1
        f == firpfb_q31_create(np, n - 1, taps)
    IN IF f = Abort THEN Abort
       ELSE [rate  |-> FOfInt(1),
             del   |-> FOfInt(1),
             tau   |-> FZero,
             bf    |-> Uninit,
             b     |-> 0,
             mu    |-> FZero,
             y0    |-> Uninit,
             y1    |-> Uninit,
             npfb  |-> np,
             pfb   |-> f,
             state |-> "INTERP"]

\* mutant: the output stride del is not recomputed
resamp_q15_set_rate_KeepsDel(q, r) ==
    [q EXCEPT !.rate = r]

resamp_q15_set_rate(q, r) ==
    [q EXCEPT !.rate = r, !.del = FDiv(FOne, r)]

\* mutant: bf is tau itself, not tau * npfb
update_timing_state_Unscaled(q) ==
    LET t == FAdd(q.tau, q.del)
    IN { [q EXCEPT !.tau = t, !.bf = t, !.b = u,
                   !.mu = FSub(t, UIntToFloat(u))] :
         u \in FloatToUInt(FloorInt(t)) }

\* the outcomes of update_timing_state: one, or the two of the undefined
\* conversion of a negative floorf(bf) to unsigned int
update_timing_state(q) ==
    LET t == FAdd(q.tau, q.del)
        f == FMulInt(t, q.npfb)
    IN { [q EXCEPT !.tau = t, !.bf = f, !.b = u,
                   !.mu = FSub(f, UIntToFloat(u))] :
         u \in FloatToUInt(FloorInt(f)) }

\* y[n++] = (1.0f - q->mu)*cq31_to_cf(q->y0) + q->mu*cq31_to_cf(q->y1)
Interpolate(q) == [mu |-> q.mu, y0 |-> q.y0, y1 |-> q.y1]

\* the record of one loop iteration: the timing state it started in (at the
\* loop head), the phases it passed to the filterbank, whether it emitted,
\* and tau and the machine state after it
Iteration(q, phases, emit, q2) ==
    [state |-> q.state, b |-> q.b, mu |-> q.mu, tau |-> q.tau, bf |-> q.bf,
     phases |-> phases, emit |-> emit, tau2 |-> q2.tau, state2 |-> q2.state]

\* one iteration of the while loop of resamp_q15_execute, from struct q and
\* call record c = [n, y, iters]; the set of its outcomes
LoopBody(q, c) ==
    IF q.state = "INTERP"
    THEN LET qa == [q EXCEPT !.y0 = firpfb_q31_execute(q.pfb, q.b)] IN
         IF q.b = q.npfb - 1
         THEN LET q2 == [qa EXCEPT !.state = "BOUNDARY", !.b = q.npfb]
              IN { [q |-> q2,
                    c |-> [c EXCEPT !.iters =
                             Append(@, Iteration(q, <<q.b>>, FALSE, q2))]] }
         ELSE LET qb == [qa EXCEPT !.y1 = firpfb_q31_execute(q.pfb, q.b + 1)]
              IN { [q |-> q2,
                    c |-> [n |-> c.n + 1,
                           y |-> Append(c.y, Interpolate(qb)),
                           iters |-> Append(c.iters,
                               Iteration(q, <<q.b, q.b + 1>>, TRUE, q2))]] :
                   q2 \in update_timing_state(qb) }
    ELSE LET qb == [q EXCEPT !.y1 = firpfb_q31_execute(q.pfb, 0)]
         IN { [q |-> [q2 EXCEPT !.state = "INTERP"],
               c |-> [n |-> c.n + 1,
                      y |-> Append(c.y, Interpolate(qb)),
                      iters |-> Append(c.iters,
                          Iteration(q, <<0>>, TRUE,
                                    [q2 EXCEPT !.state = "INTERP"]))]] :
              q2 \in update_timing_state(qb) }

\* what decides the further course of the loop
Timing(q) == <<q.tau, q.bf, q.b, q.mu, q.state>>

\* while (q->b < q->npfb) ...: the set of outcomes [q, c, status], status
\* "exit" (the loop ended), "stuck" (an iteration left the timing state as
\* it was: the loop never ends) or "runaway" (fuel iterations did not end it)
RECURSIVE RunLoop(_, _, _)
RunLoop(q, c, fuel) ==
    IF ~ULess(q.b, q.npfb) THEN { [q |-> q, c |-> c, status |-> "exit"] }
    ELSE IF fuel = 0 THEN { [q |-> q, c |-> c, status |-> "runaway"] }
    ELSE UNION { IF Timing(s.q) = Timing(q)
                 THEN { [q |-> s.q, c |-> s.c, status |-> "stuck"] }
                 ELSE RunLoop(s.q, s.c, fuel - 1) :
                 s \in LoopBody(q, c) }

\* mutant: b is not re-based after the loop
Rebase_KeepsB(q) ==
    [q EXCEPT !.tau = FSub(q.tau, FOne),
              !.bf  = IF q.bf = Uninit THEN Uninit
                      ELSE FSub(q.bf, FOfInt(q.npfb))]

\* mutant: tau is not decremented after the loop
Rebase_KeepsTau(q) ==
    [q EXCEPT !.bf  = IF q.bf = Uninit THEN Uninit
                      ELSE FSub(q.bf, FOfInt(q.npfb)),
              !.b   = q.b - q.npfb]

\* the three statements after the loop
Rebase(q) ==
    [q EXCEPT !.tau = FSub(q.tau, FOne),
              !.bf  = IF q.bf = Uninit THEN Uninit
                      ELSE FSub(q.bf, FOfInt(q.npfb)),
              !.b   = q.b - q.npfb]

\* resamp_q15_execute(q, &x, y, &n): the set of outcomes [q, c, status];
\* status "returned" with *pn = c.n and y = c.y, or the call never returns
resamp_q15_execute(q, x) ==
    LET q1 == [q EXCEPT !.pfb = firpfb_q31_push(q.pfb, ToQ31(x))]
    IN { IF s.status = "exit"
         THEN [q |-> Rebase(s.q), c |-> s.c, status |-> "returned"]
         ELSE s :
         s \in RunLoop(q1, [n |-> 0, y |-> <<>>, iters |-> <<>>], MaxIter) }

(***************************************************************************)
(* Coefficient quantisation in the two create functions.  x is a prototype *)
(* coefficient _h[k], a float.                                             *)
(***************************************************************************)
\* x * 2^k, exact
FScale(x, k) == IF x.m = 0 THEN x ELSE [x EXCEPT !.e = @ + k]

\* the float x * (2^k - 1): the exact product 2^k x - x rounded once.  It is
\* `_h[..] * 32767.0f` (k = 15) and `_h[..] * 2147483647.0` as roundf takes
\* it (k = 31): there the double product is rounded again to float, to the
\* same value, the product lying within 2^-31 of 2^k x in relative terms,
\* far from a rounding tie of either format.
FMulPow2Minus1(x, k) == FSub(FScale(x, k), x)

\* roundf(a) as an integer: to nearest, halves away from zero (|a| < 2^31)
RoundfInt(a) ==
    LET n   == -a.e
        mag == IF a.m = 0 THEN 0
               ELSE IF a.e >= 0 THEN a.m * 2^a.e
               ELSE IF n > 24 THEN 0
               ELSE (a.m \div 2^n) + (IF 2 * (a.m % 2^n) >= 2^n THEN 1 ELSE 0)
    IN IF a.s = 1 THEN -mag ELSE mag

\* conversion of a float to a signed integer type: toward zero
TruncInt(a) == IF a.s = 1 THEN -FloorInt(FNeg(a)) ELSE FloorInt(a)

INT32_MAX == 2147483647
INT32_MIN == -2147483647 - 1

\* q->h[..] = roundf(_h[..] * 2147483647.0): the set of values the int32_t
\* slot can get.  A roundf result of 2^31 or more does not fit int32_t and
\* its conversion is undefined: it saturates (AArch64) or gives the integer
\* indefinite value 0x80000000 (x86-64).
quantize_q31(x) ==
    LET f == FMulPow2Minus1(x, 31) IN
    IF f.m # 0 /\ f.e >= 8
    THEN IF f.s = 0 THEN {INT32_MAX, INT32_MIN} ELSE {INT32_MIN}
    ELSE {RoundfInt(f)}

\* q->h[..] = _h[..] * 32767.0f: the float product converted to int16_t
quantize_q15(x) == {TruncInt(FMulPow2Minus1(x, 15))}

(***************************************************************************)
(* State.                                                                  *)
(***************************************************************************)
VARIABLES
    pc,        \* "new": not created; "idle": between calls; "aborted": an
               \* assert of create failed; "hung": inside an execute call
               \* whose loop has not ended
    numTaps,   \* NUM_TAPS of the build (16, or 8 with USE_FAST_MATH)
    rs,        \* the struct resamp_q15
    fb,        \* a filterbank used on its own (filterbank specification):
               \* the firpfb_q31 / firpfb_q15 object
    tier,      \* the tier of fb: "q31" or "q15"
    pushed,    \* history: the number of samples pushed into fb; the k-th
               \* sample pushed is InputSample(k)
    nIn,       \* history: number of resamp_q15_execute calls
    nOut,      \* history: number of output samples emitted by all calls
    nSet,      \* history: number of resamp_q15_set_rate calls
    rate0,     \* history: the rate in force at the first execute call, and
    constRate, \* whether every call so far ran with that rate
    last,      \* history: the last operation and, for execute, the record
               \* of the call (its loop iterations and its outputs)
    qz,        \* quantisation specification: the coefficient x, the tier
               \* and, once quantised, the table value h
    st,        \* output specification: the output_t fields free, head, tail
               \* and the next field of every pool buffer
    mutex,     \* st->mutex: its owner, "none", "caller" or "worker"
    cond,      \* st->cond: the threads blocked on it
    caller,    \* the thread calling output_push and output_reset: its
               \* position pc, its local ob, and whether its last wait
               \* timed out
    worker     \* the output_worker thread: its position pc and its local ob

vars == <<pc, numTaps, rs, fb, tier, pushed, nIn, nOut, nSet, rate0,
          constRate, last, qz, st, mutex, cond, caller, worker>>

histVars == <<nIn, nOut, nSet, rate0, constRate>>
fbVars == <<fb, tier, pushed>>
\* the variables of the resampler and filterbank specifications
resampVars == <<pc, numTaps, rs, fbVars, histVars, last>>
\* the variables the resampler and the filterbank specifications leave alone
outVars == <<st, mutex, cond, caller, worker>>
otherVars == <<qz, outVars>>

\* the output variables where no output_t exists
OutputUnused ==
    /\ st = Uninit
    /\ mutex = "none"
    /\ cond = {}
    /\ caller = Uninit
    /\ worker = Uninit

(***************************************************************************)
(* Inputs.                                                                 *)
(***************************************************************************)
\* the float a / b of two small ints
FRat(num, den) == FDiv(FOfInt(num), FOfInt(den))

\* the rates given to resamp_q15_set_rate (all > 0)
Rates == { FRat(1, 2), FRat(2, 3), FOne, FRat(3, 2), FRat(5, 2),
           FOfInt(4), FOfInt(8), FOfInt(2^27) }

\* the m and npfb given to resamp_q15_create
Ms == {2, 4, 8}
Npfbs == {3, 4}

(***************************************************************************)
(* Resampler specification.                                                *)
(***************************************************************************)
Init ==
    /\ pc = "new"
    /\ numTaps \in {NUM_TAPS_DEFAULT, NUM_TAPS_FAST}
    /\ rs = Uninit
    /\ fb = Uninit
    /\ tier = "none"
    /\ pushed = 0
    /\ nIn = 0
    /\ nOut = 0
    /\ nSet = 0
    /\ rate0 = FZero
    /\ constRate = TRUE
    /\ last = [op |-> "none"]
    /\ qz = [op |-> "none"]
    /\ OutputUnused

Create(m, np) ==
    /\ pc = "new"
    /\ LET q == resamp_q15_create(m, np, numTaps) IN
       IF q = Abort
       THEN /\ pc' = "aborted"
            /\ rs' = rs
            /\ last' = [op |-> "create", m |-> m, npfb |-> np, ok |-> FALSE]
       ELSE /\ pc' = "idle"
            /\ rs' = q
            /\ last' = [op |-> "create", m |-> m, npfb |-> np, ok |-> TRUE]
    /\ UNCHANGED <<otherVars, numTaps, fbVars, histVars>>

SetRate(r) ==
    /\ pc = "idle"
    /\ nSet < MaxSetRate
    /\ rs' = resamp_q15_set_rate(rs, r)
    /\ nSet' = nSet + 1
    /\ last' = [op |-> "set_rate", rate |-> r]
    /\ UNCHANGED <<otherVars, pc, numTaps, fbVars, nIn, nOut, rate0, constRate>>

Execute ==
    /\ pc = "idle"
    /\ nIn < MaxCalls
    /\ \E s \in resamp_q15_execute(rs, InputSample(nIn + 1)) :
          /\ rs' = s.q
          /\ pc' = IF s.status = "returned" THEN "idle" ELSE "hung"
          /\ nOut' = nOut + s.c.n
          /\ last' = [op |-> "execute", pre |-> rs, status |-> s.status,
                      n |-> s.c.n, y |-> s.c.y, iters |-> s.c.iters]
    /\ nIn' = nIn + 1
    /\ rate0' = IF nIn = 0 THEN rs.rate ELSE rate0
    /\ constRate' = IF nIn = 0 THEN TRUE ELSE constRate /\ rs.rate = rate0
    /\ UNCHANGED <<otherVars, numTaps, fbVars, nSet>>

Next ==
    \/ \E m \in Ms, np \in Npfbs : Create(m, np)
    \/ \E r \in Rates : SetRate(r)
    \/ Execute

Spec == Init /\ [][Next]_vars


(***************************************************************************)
(* Filterbank specification: one filterbank of either tier, created and    *)
(* then driven directly by push and execute.                               *)
(***************************************************************************)
\* the nf and h_len given to firpfb_q31_create / firpfb_q15_create
PfbNfs == {2, 4}
PfbLens == {16, 32, 33, 64}
\* the phases given to firpfb_q31_execute / firpfb_q15_execute
PfbPhases == 0..3

InitPfb == Init

PfbCreateQ31(nf, h_len) ==
    /\ pc = "new"
    /\ LET q == firpfb_q31_create(nf, h_len, numTaps) IN
       /\ pc' = IF q = Abort THEN "aborted" ELSE "idle"
       /\ fb' = IF q = Abort THEN fb ELSE q
       /\ last' = [op |-> "create", nf |-> nf, h_len |-> h_len,
                   taps |-> numTaps, ok |-> q # Abort]
    /\ tier' = "q31"
    /\ UNCHANGED <<otherVars, numTaps, rs, pushed, histVars>>

PfbCreateQ15(nf, h_len) ==
    /\ pc = "new"
    /\ LET q == firpfb_q15_create(nf, h_len) IN
       /\ pc' = IF q = Abort THEN "aborted" ELSE "idle"
       /\ fb' = IF q = Abort THEN fb ELSE q
       /\ last' = [op |-> "create", nf |-> nf, h_len |-> h_len,
                   taps |-> NUM_TAPS_Q15, ok |-> q # Abort]
    /\ tier' = "q15"
    /\ UNCHANGED <<otherVars, numTaps, rs, pushed, histVars>>

\* firpfb_q31_push(fb, x) with a cint32_t x, firpfb_q15_push(fb, x) with a
\* cint16_t x
PfbPush ==
    /\ pc = "idle"
    /\ pushed < MaxPush
    /\ fb' = IF tier = "q31"
             THEN firpfb_q31_push(fb, ToQ31(InputSample(pushed + 1)))
             ELSE firpfb_q15_push(fb, InputSample(pushed + 1))
    /\ pushed' = pushed + 1
    /\ last' = [op |-> "push", compacted |-> fb.idx = WINDOW_SIZE]
    /\ UNCHANGED <<otherVars, pc, numTaps, rs, tier, histVars>>

\* firpfb_q31_execute(fb, f, &y) / firpfb_q15_execute(fb, f, &y), called as
\* the resampler does: after a push; y is the result of the scalar build,
\* simd the results of the SIMD builds
PfbExecute(f) ==
    /\ pc = "idle"
    /\ pushed >= 1
    /\ f < fb.nf
    /\ last' = [op |-> "execute", f |-> f,
                y |-> IF tier = "q31" THEN firpfb_q31_execute(fb, f)
                      ELSE firpfb_q15_execute(fb, f),
                simd |-> IF tier = "q31"
                         THEN firpfb_q31_execute_simd(fb, f, numTaps)
                         ELSE firpfb_q15_execute_simd(fb, f,
                                  numTaps = NUM_TAPS_FAST)]
    /\ UNCHANGED <<otherVars, pc, numTaps, rs, fbVars, histVars>>

NextPfb ==
    \/ \E nf \in PfbNfs, h_len \in PfbLens : PfbCreateQ31(nf, h_len)
    \/ \E nf \in PfbNfs, h_len \in PfbLens : PfbCreateQ15(nf, h_len)
    \/ PfbPush
    \/ \E f \in PfbPhases : PfbExecute(f)

SpecPfb == InitPfb /\ [][NextPfb]_vars


(***************************************************************************)
(* Quantisation specification: one prototype coefficient is quantised as   *)
(* firpfb_q31_create or firpfb_q15_create does it.                         *)
(***************************************************************************)
\* the prototype coefficients: n / 64 and n / 10 in [-1, 1], and -n / 2^20
Coeffs == { FRat(n, 64) : n \in -64..64 } \cup { FRat(n, 10) : n \in -10..10 }
          \cup { FRat(-n, 2^20) : n \in 1..3 }

InitQuant ==
    /\ pc = "new"
    /\ numTaps \in {NUM_TAPS_DEFAULT, NUM_TAPS_FAST}
    /\ rs = Uninit
    /\ fb = Uninit
    /\ tier = "none"
    /\ pushed = 0
    /\ nIn = 0
    /\ nOut = 0
    /\ nSet = 0
    /\ rate0 = FZero
    /\ constRate = TRUE
    /\ last = [op |-> "none"]
    /\ \E x \in Coeffs : qz = [op |-> "input", x |-> x]
    /\ OutputUnused

\* lines 111-112 of firpfb_q31_create, for one coefficient
QuantizeQ31 ==
    /\ qz.op = "input"
    /\ \E h \in quantize_q31(qz.x) :
          qz' = [op |-> "quantized", tier |-> "q31", x |-> qz.x, h |-> h]
    /\ UNCHANGED <<resampVars, outVars>>

\* lines 253-254 of firpfb_q15_create, for one coefficient
QuantizeQ15 ==
    /\ qz.op = "input"
    /\ \E h \in quantize_q15(qz.x) :
          qz' = [op |-> "quantized", tier |-> "q15", x |-> qz.x, h |-> h]
    /\ UNCHANGED <<resampVars, outVars>>

NextQuant == QuantizeQ31 \/ QuantizeQ15

SpecQuant == InitQuant /\ [][NextQuant]_vars

(***************************************************************************)
(* The audio output queue of output.c: a pool of buffers linked by their   *)
(* next fields into the free list (st->free) and the head list (st->head,  *)
(* st->tail), a caller thread running output_push and output_reset, and    *)
(* the output_worker thread.  A statement that runs with st->mutex held is *)
(* grouped with its neighbours only where no statement of the other thread *)
(* runs without the mutex; output_reset runs output_reset_buffers without  *)
(* it, so the worker's critical sections and output_reset advance one      *)
(* statement at a time.  Where a statement uses a shared field that an     *)
(* earlier statement of the same function loaded or stored, an unoptimised *)
(* build loads the field again and an optimised build keeps the earlier    *)
(* value in a register (gcc -O2 does so at every such place); with the     *)
(* data race both are outcomes, and the field h of a thread holds the      *)
(* value kept.  A statement of these sections that loads one shared field  *)
(* and stores another is two steps, the value loaded being kept in h (in f *)
(* for line 100) in between.                                               *)
(***************************************************************************)
\* the buffers output_init_ao allocates: 32 in the source (line 271)
NumBufs == 3

\* the frames output_push is given
MaxFrames == 4

NULL == 0

Buffers == 1..NumBufs

\* the data of a buffer no frame was copied into
NoFrame == 0

\* lines 267-276: each new buffer is pushed on the free list; data is the
\* number of the frame a buffer holds
output_init_ao ==
    [free |-> NumBufs, head |-> NULL, tail |-> NULL,
     next |-> [b \in Buffers |-> b - 1],
     data |-> [b \in Buffers |-> NoFrame]]

\* the walk of line 95 that has not ended after NumBufs steps never ends
Endless == -1

\* line 95: the end of the list that starts at ob
RECURSIVE ListEnd(_, _, _)
ListEnd(s, ob, fuel) ==
    IF ob # NULL /\ s.next[ob] # NULL
    THEN IF fuel = 0 THEN Endless ELSE ListEnd(s, s.next[ob], fuel - 1)
    ELSE ob

\* lines 98-105, for the ob the walk ended at
ResetLinks(s, ob) ==
    [s EXCEPT !.next = IF ob # NULL THEN [@ EXCEPT ![ob] = s.free] ELSE @,
              !.free = IF ob # NULL THEN s.head ELSE @,
              !.head = NULL,
              !.tail = NULL]

\* output_reset_buffers as one step, for the call under the mutex (line 155)
output_reset_buffers(s) == ResetLinks(s, ListEnd(s, s.head, NumBufs))

\* lines 158-159: take the first free buffer
TakeFree(s) == [s EXCEPT !.free = s.next[s.free]]

\* line 162: memcpy(ob->data, buffer, bytes), for frame number n
CopyFrame(s, ob, n) == [s EXCEPT !.data = [@ EXCEPT ![ob] = n]]

\* lines 165-170: append ob to the head list
Enqueue(s, ob) ==
    LET s1 == [s EXCEPT !.next = [@ EXCEPT ![ob] = NULL]]
        s2 == IF s1.tail # NULL
              THEN [s1 EXCEPT !.next = [@ EXCEPT ![s1.tail] = ob]]
              ELSE [s1 EXCEPT !.head = ob]
    IN  [s2 EXCEPT !.tail = ob]

\* the frames in the buffers of the head list
RECURSIVE FramesFrom(_, _, _)
FramesFrom(s, ob, fuel) ==
    IF ob = NULL \/ fuel = 0 THEN {}
    ELSE {s.data[ob]} \cup FramesFrom(s, s.next[ob], fuel - 1)

Queued(s) == FramesFrom(s, s.head, NumBufs) \ {NoFrame}

\* the position a thread blocked on the condition resumes at
Woken(t) == IF t = "caller" THEN "push_woken" ELSE "woken"

\* once the worker has dereferenced a null ob (line 194) the process is
\* gone; a caller whose walk of line 95 never ends ("hung") keeps the mutex
\* and stops no step of the worker that does not need it
Running == worker.pc # "crashed"

InitOut ==
    /\ pc = "new"
    /\ numTaps = NUM_TAPS_DEFAULT
    /\ rs = Uninit
    /\ fb = Uninit
    /\ tier = "none"
    /\ pushed = 0
    /\ nIn = 0
    /\ nOut = 0
    /\ nSet = 0
    /\ rate0 = FZero
    /\ constRate = TRUE
    /\ last = [op |-> "none"]
    /\ qz = [op |-> "none"]
    /\ st = output_init_ao
    /\ mutex = "none"
    /\ cond = {}
    /\ caller = [pc |-> "idle", ob |-> NULL, h |-> NULL, f |-> NULL,
                 timedOut |-> FALSE, n |-> 0, dropped |-> {}]
    /\ worker = [pc |-> "lock", ob |-> NULL, h |-> NULL, prev |-> NoFrame,
                 cur |-> NoFrame, torn |-> FALSE]

\* output_push, line 149: the mutex is taken
PushLock ==
    /\ Running
    /\ caller.pc = "idle"
    /\ caller.n < MaxFrames
    /\ mutex = "none"
    /\ mutex' = "caller"
    /\ caller' = [caller EXCEPT !.pc = "push_test", !.n = @ + 1]
    /\ UNCHANGED <<st, cond, worker>>
    /\ UNCHANGED <<resampVars, qz>>

\* lines 150-160: with no free buffer the caller blocks in
\* pthread_cond_timedwait, which releases the mutex; otherwise it takes the
\* first free buffer and releases the mutex
PushTest ==
    /\ Running
    /\ caller.pc = "push_test"
    /\ IF st.free = NULL
       THEN /\ cond' = cond \cup {"caller"}
            /\ caller' = [caller EXCEPT !.pc = "push_wait"]
            /\ UNCHANGED st
       ELSE /\ st' = TakeFree(st)
            /\ caller' = [caller EXCEPT !.pc = "push_copy", !.ob = st.free]
            /\ UNCHANGED cond
    /\ mutex' = "none"
    /\ UNCHANGED worker
    /\ UNCHANGED <<resampVars, qz>>

\* line 152: the deadline of pthread_cond_timedwait passes; the caller is no
\* longer a waiter of the condition and has yet to take the mutex again
PushDeadline ==
    /\ Running
    /\ caller.pc = "push_wait"
    /\ cond' = cond \ {"caller"}
    /\ caller' = [caller EXCEPT !.pc = "push_expired"]
    /\ UNCHANGED <<st, mutex, worker>>
    /\ UNCHANGED <<resampVars, qz>>

\* lines 152-155: the wait whose deadline has passed takes the mutex again
\* and returns ETIMEDOUT, and output_reset_buffers runs with the mutex held
PushTimeout ==
    /\ Running
    /\ caller.pc = "push_expired"
    /\ mutex = "none"
    /\ LET ob == ListEnd(st, st.head, NumBufs) IN
          IF ob = Endless
          THEN /\ caller' = [caller EXCEPT !.pc = "hung"]
               /\ UNCHANGED st
          ELSE /\ st' = output_reset_buffers(st)
               /\ caller' = [caller EXCEPT !.pc = "push_test",
                                           !.timedOut = TRUE,
                                           !.dropped = @ \cup Queued(st)]
    /\ mutex' = "caller"
    /\ UNCHANGED <<cond, worker>>
    /\ UNCHANGED <<resampVars, qz>>

\* line 152: the wait, signalled, takes the mutex again and returns 0
PushWake ==
    /\ Running
    /\ caller.pc = "push_woken"
    /\ mutex = "none"
    /\ mutex' = "caller"
    /\ caller' = [caller EXCEPT !.pc = "push_test", !.timedOut = FALSE]
    /\ UNCHANGED <<st, cond, worker>>
    /\ UNCHANGED <<resampVars, qz>>

\* line 162: the samples are copied into the buffer, without the mutex
PushCopy ==
    /\ Running
    /\ caller.pc = "push_copy"
    /\ st' = CopyFrame(st, caller.ob, caller.n)
    /\ caller' = [caller EXCEPT !.pc = "push_copied"]
    /\ UNCHANGED <<mutex, cond, worker>>
    /\ UNCHANGED <<resampVars, qz>>

\* lines 164-171: the mutex is taken and the buffer is appended to the head
\* list
PushEnqueue ==
    /\ Running
    /\ caller.pc = "push_copied"
    /\ mutex = "none"
    /\ st' = Enqueue(st, caller.ob)
    /\ caller' = [caller EXCEPT !.pc = "push_signal"]
    /\ UNCHANGED <<mutex, cond, worker>>
    /\ UNCHANGED <<resampVars, qz>>

\* line 172: pthread_cond_signal, and output_push returns
PushSignal ==
    /\ Running
    /\ caller.pc = "push_signal"
    /\ caller' = [caller EXCEPT !.pc = "idle", !.ob = NULL,
                                !.timedOut = FALSE]
    /\ IF "worker" \in cond
       THEN /\ cond' = cond \ {"worker"}
            /\ worker' = [worker EXCEPT !.pc = Woken("worker")]
       ELSE UNCHANGED <<cond, worker>>
    /\ UNCHANGED <<st, mutex>>
    /\ UNCHANGED <<resampVars, qz>>

\* output_reset, line 226, calls output_reset_buffers without the mutex;
\* line 95: ob = st->head
ResetBegin ==
    /\ Running
    /\ caller.pc = "idle"
    /\ caller' = [caller EXCEPT !.pc = "reset_walk", !.ob = st.head,
                                !.h = st.head]
    /\ UNCHANGED <<st, mutex, cond, worker>>
    /\ UNCHANGED <<resampVars, qz>>

\* line 95: the test ob && ob->next of the loop; when it passes, the step
\* ob = ob->next either uses the value the test loaded or loads it again
ResetWalk ==
    /\ Running
    /\ caller.pc = "reset_walk"
    /\ IF caller.ob # NULL /\ st.next[caller.ob] # NULL
       THEN \/ caller' = [caller EXCEPT !.ob = st.next[caller.ob]]
            \/ caller' = [caller EXCEPT !.pc = "reset_step"]
       ELSE caller' = [caller EXCEPT !.pc = "reset_link"]
    /\ UNCHANGED <<st, mutex, cond, worker>>
    /\ UNCHANGED <<resampVars, qz>>

\* line 95: the step ob = ob->next with a load of its own; a null ob ends
\* the loop
ResetStep ==
    /\ Running
    /\ caller.pc = "reset_step"
    /\ caller' = IF st.next[caller.ob] # NULL
                 THEN [caller EXCEPT !.pc = "reset_walk",
                                     !.ob = st.next[caller.ob]]
                 ELSE [caller EXCEPT !.pc = "reset_link", !.ob = NULL]
    /\ UNCHANGED <<st, mutex, cond, worker>>
    /\ UNCHANGED <<resampVars, qz>>

\* lines 98-100: the test of ob, and the load of st->free of
\* ob->next = st->free
ResetLink ==
    /\ Running
    /\ caller.pc = "reset_link"
    /\ caller' = IF caller.ob # NULL
                 THEN [caller EXCEPT !.pc = "reset_link_store", !.f = st.free]
                 ELSE [caller EXCEPT !.pc = "reset_head", !.h = NULL]
    /\ UNCHANGED <<st, mutex, cond, worker>>
    /\ UNCHANGED <<resampVars, qz>>

\* line 100: the store to ob->next of the value loaded
ResetLinkStore ==
    /\ Running
    /\ caller.pc = "reset_link_store"
    /\ st' = [st EXCEPT !.next = [@ EXCEPT ![caller.ob] = caller.f]]
    /\ caller' = [caller EXCEPT !.pc = "reset_free", !.f = NULL]
    /\ UNCHANGED <<mutex, cond, worker>>
    /\ UNCHANGED <<resampVars, qz>>

\* line 101: the right-hand side of st->free = st->head, the head of now or
\* the head line 95 loaded
ResetFree ==
    /\ Running
    /\ caller.pc = "reset_free"
    /\ \E v \in {st.head, caller.h} :
          caller' = [caller EXCEPT !.pc = "reset_free_store", !.h = v]
    /\ UNCHANGED <<st, mutex, cond, worker>>
    /\ UNCHANGED <<resampVars, qz>>

\* line 101: the store to st->free
ResetFreeStore ==
    /\ Running
    /\ caller.pc = "reset_free_store"
    /\ st' = [st EXCEPT !.free = caller.h]
    /\ caller' = [caller EXCEPT !.pc = "reset_head", !.h = NULL]
    /\ UNCHANGED <<mutex, cond, worker>>
    /\ UNCHANGED <<resampVars, qz>>

\* line 104: st->head = NULL
ResetHead ==
    /\ Running
    /\ caller.pc = "reset_head"
    /\ st' = [st EXCEPT !.head = NULL]
    /\ caller' = [caller EXCEPT !.pc = "reset_tail"]
    /\ UNCHANGED <<mutex, cond, worker>>
    /\ UNCHANGED <<resampVars, qz>>

\* line 105: st->tail = NULL, and output_reset returns
ResetTail ==
    /\ Running
    /\ caller.pc = "reset_tail"
    /\ st' = [st EXCEPT !.tail = NULL]
    /\ caller' = [caller EXCEPT !.pc = "idle", !.ob = NULL,
                                !.timedOut = FALSE]
    /\ UNCHANGED <<mutex, cond, worker>>
    /\ UNCHANGED <<resampVars, qz>>

\* output_worker, line 189: the mutex is taken
WorkerLock ==
    /\ Running
    /\ worker.pc = "lock"
    /\ mutex = "none"
    /\ mutex' = "worker"
    /\ worker' = [worker EXCEPT !.pc = "test"]
    /\ UNCHANGED <<st, cond, caller>>
    /\ UNCHANGED <<resampVars, qz>>

\* lines 190-191: with an empty head list the worker blocks in
\* pthread_cond_wait, which releases the mutex
WorkerTest ==
    /\ Running
    /\ worker.pc = "test"
    /\ IF st.head = NULL
       THEN /\ cond' = cond \cup {"worker"}
            /\ mutex' = "none"
            /\ worker' = [worker EXCEPT !.pc = "wait"]
       ELSE /\ worker' = [worker EXCEPT !.pc = "take", !.h = st.head]
            /\ UNCHANGED <<cond, mutex>>
    /\ UNCHANGED <<st, caller>>
    /\ UNCHANGED <<resampVars, qz>>

\* line 191: the wait, signalled, takes the mutex again
WorkerWake ==
    /\ Running
    /\ worker.pc = "woken"
    /\ mutex = "none"
    /\ mutex' = "worker"
    /\ worker' = [worker EXCEPT !.pc = "test"]
    /\ UNCHANGED <<st, cond, caller>>
    /\ UNCHANGED <<resampVars, qz>>

\* line 193: ob = st->head, with the head of now or the head line 190 loaded
WorkerTake ==
    /\ Running
    /\ worker.pc = "take"
    /\ \E v \in {st.head, worker.h} :
          worker' = [worker EXCEPT !.pc = "unlink", !.ob = v, !.h = NULL]
    /\ UNCHANGED <<st, mutex, cond, caller>>
    /\ UNCHANGED <<resampVars, qz>>

\* line 194: the load of ob->next of st->head = ob->next; reading the next
\* field of a null ob ends the process
WorkerUnlink ==
    /\ Running
    /\ worker.pc = "unlink"
    /\ worker' = IF worker.ob = NULL
                 THEN [worker EXCEPT !.pc = "crashed"]
                 ELSE [worker EXCEPT !.pc = "unlink_store",
                                     !.h = st.next[worker.ob]]
    /\ UNCHANGED <<st, mutex, cond, caller>>
    /\ UNCHANGED <<resampVars, qz>>

\* line 194: the store to st->head of the value loaded
WorkerUnlinkStore ==
    /\ Running
    /\ worker.pc = "unlink_store"
    /\ st' = [st EXCEPT !.head = worker.h]
    /\ worker' = [worker EXCEPT !.pc = "fixtail"]
    /\ UNCHANGED <<mutex, cond, caller>>
    /\ UNCHANGED <<resampVars, qz>>

\* lines 195-197: an emptied head list has no tail, tested on the head of
\* now or on the head line 194 stored; the mutex is released
WorkerFixTail ==
    /\ Running
    /\ worker.pc = "fixtail"
    /\ \E v \in {st.head, worker.h} :
          st' = IF v = NULL THEN [st EXCEPT !.tail = NULL] ELSE st
    /\ mutex' = "none"
    /\ worker' = [worker EXCEPT !.pc = "play_start", !.h = NULL]
    /\ UNCHANGED <<cond, caller>>
    /\ UNCHANGED <<resampVars, qz>>

\* line 199: ao_play is called on the buffer, cur being the frame it finds
\* there
WorkerPlayStart ==
    /\ Running
    /\ worker.pc = "play_start"
    /\ worker' = [worker EXCEPT !.pc = "play", !.prev = worker.cur,
                                !.cur = st.data[worker.ob], !.torn = FALSE]
    /\ UNCHANGED <<st, mutex, cond, caller>>
    /\ UNCHANGED <<resampVars, qz>>

\* line 199: ao_play reads ob->data without the mutex for as long as it
\* runs; it goes on with a frame copied into the buffer meanwhile
WorkerPlaying ==
    /\ Running
    /\ worker.pc = "play"
    /\ st.data[worker.ob] # worker.cur
    /\ worker' = [worker EXCEPT !.cur = st.data[worker.ob], !.torn = TRUE]
    /\ UNCHANGED <<st, mutex, cond, caller>>
    /\ UNCHANGED <<resampVars, qz>>

\* line 199: ao_play returns
WorkerPlayed ==
    /\ Running
    /\ worker.pc = "play"
    /\ worker' = [worker EXCEPT !.pc = "played"]
    /\ UNCHANGED <<st, mutex, cond, caller>>
    /\ UNCHANGED <<resampVars, qz>>

\* line 201: the mutex is taken
WorkerRelock ==
    /\ Running
    /\ worker.pc = "played"
    /\ mutex = "none"
    /\ mutex' = "worker"
    /\ worker' = [worker EXCEPT !.pc = "free_link"]
    /\ UNCHANGED <<st, cond, caller>>
    /\ UNCHANGED <<resampVars, qz>>

\* line 203: the load of st->free of ob->next = st->free
WorkerFreeLink ==
    /\ Running
    /\ worker.pc = "free_link"
    /\ worker' = [worker EXCEPT !.pc = "free_link_store", !.h = st.free]
    /\ UNCHANGED <<st, mutex, cond, caller>>
    /\ UNCHANGED <<resampVars, qz>>

\* line 203: the store to ob->next of the value loaded
WorkerFreeLinkStore ==
    /\ Running
    /\ worker.pc = "free_link_store"
    /\ st' = [st EXCEPT !.next = [@ EXCEPT ![worker.ob] = worker.h]]
    /\ worker' = [worker EXCEPT !.pc = "free_push", !.h = NULL]
    /\ UNCHANGED <<mutex, cond, caller>>
    /\ UNCHANGED <<resampVars, qz>>

\* lines 204-205: st->free = ob, and the mutex is released
WorkerFreePush ==
    /\ Running
    /\ worker.pc = "free_push"
    /\ st' = [st EXCEPT !.free = worker.ob]
    /\ mutex' = "none"
    /\ worker' = [worker EXCEPT !.pc = "signal"]
    /\ UNCHANGED <<cond, caller>>
    /\ UNCHANGED <<resampVars, qz>>

\* line 206: pthread_cond_signal, and the loop starts again; cur stays as
\* the last frame played
WorkerSignal ==
    /\ Running
    /\ worker.pc = "signal"
    /\ worker' = [worker EXCEPT !.pc = "lock", !.ob = NULL,
                                !.prev = NoFrame, !.torn = FALSE]
    /\ IF "caller" \in cond
       THEN /\ cond' = cond \ {"caller"}
            /\ caller' = [caller EXCEPT !.pc = Woken("caller")]
       ELSE UNCHANGED <<cond, caller>>
    /\ UNCHANGED <<st, mutex>>
    /\ UNCHANGED <<resampVars, qz>>

\* pthread_cond_wait and pthread_cond_timedwait may return with no signal
SpuriousWakeup ==
    /\ Running
    /\ \E t \in cond :
          /\ cond' = cond \ {t}
          /\ IF t = "caller"
             THEN /\ caller' = [caller EXCEPT !.pc = Woken(t)]
                  /\ UNCHANGED worker
             ELSE /\ worker' = [worker EXCEPT !.pc = Woken(t)]
                  /\ UNCHANGED caller
    /\ UNCHANGED <<st, mutex>>
    /\ UNCHANGED <<resampVars, qz>>

output_push ==
    \/ PushLock
    \/ PushTest
    \/ PushDeadline
    \/ PushTimeout
    \/ PushWake
    \/ PushCopy
    \/ PushEnqueue
    \/ PushSignal

output_reset ==
    \/ ResetBegin
    \/ ResetWalk
    \/ ResetStep
    \/ ResetLink
    \/ ResetLinkStore
    \/ ResetFree
    \/ ResetFreeStore
    \/ ResetHead
    \/ ResetTail

output_worker ==
    \/ WorkerLock
    \/ WorkerTest
    \/ WorkerWake
    \/ WorkerTake
    \/ WorkerUnlink
    \/ WorkerUnlinkStore
    \/ WorkerFixTail
    \/ WorkerPlayStart
    \/ WorkerPlaying
    \/ WorkerPlayed
    \/ WorkerRelock
    \/ WorkerFreeLink
    \/ WorkerFreeLinkStore
    \/ WorkerFreePush
    \/ WorkerSignal

NextOut ==
    \/ output_push
    \/ output_reset
    \/ output_worker
    \/ SpuriousWakeup

SpecOut == InitOut /\ [][NextOut]_vars

\* the steps of output_push after its call
PushProgress ==
    \/ PushTest
    \/ PushDeadline
    \/ PushTimeout
    \/ PushWake
    \/ PushCopy
    \/ PushEnqueue
    \/ PushSignal

\* the steps of output_reset after its call
ResetProgress ==
    \/ ResetWalk
    \/ ResetStep
    \/ ResetLink
    \/ ResetLinkStore
    \/ ResetFree
    \/ ResetFreeStore
    \/ ResetHead
    \/ ResetTail

\* both threads are scheduled while they can take a step, the deadline of
\* a timed wait passes and ao_play returns; a thread that finds st->mutex
\* free again and again takes it in the end, hence the strong fairness of
\* the steps that take it; when the caller calls output_push or
\* output_reset is up to it
SpecOutFair ==
    /\ SpecOut
    /\ SF_vars(PushProgress)
    /\ WF_vars(ResetProgress)
    /\ SF_vars(output_worker)


(***************************************************************************)
(* Helpers of the properties.                                              *)
(***************************************************************************)
\* the odd part of a mantissa and the exponent that goes with it
RECURSIVE Reduced(_, _)
Reduced(m, e) == IF m # 0 /\ m % 2 = 0 THEN Reduced(m \div 2, e + 1)
                 ELSE <<m, e>>

\* | cnt - r * n | <= 1 for the float r > 0 and naturals cnt, n, exactly
WithinOne(cnt, r, n) ==
    LET me == Reduced(r.m, r.e)
        d  == IF me[2] >= 0 THEN cnt - me[1] * 2^me[2] * n
              ELSE cnt * 2^(-me[2]) - me[1] * n
        u  == IF me[2] >= 0 THEN 1 ELSE 2^(-me[2])
    IN -u <= d /\ d <= u

\* floor(r) and ceil(r) of the float r > 0
FloorOf(r) == FloorInt(r)
CeilOf(r) == -FloorInt(FNeg(r))

\* r >= 1
FGeqOne(r) == r.s = 0 /\ r.m # 0 /\ r.e >= -23

Returned == pc = "idle" /\ last.op = "execute"

(***************************************************************************)
(* C1: with a constant rate > 0 set before the first execute, after N      *)
(* execute calls the number of output samples emitted so far differs from  *)
(* rate * N by at most 1.                                                  *)
(***************************************************************************)
C1_CumulativeWithinOne ==
    (Returned /\ constRate) => WithinOne(nOut, rate0, nIn)


(***************************************************************************)
(* C2: after any sequence of pushes, compaction included, the h_sub_len    *)
(* window entries that execute reads (those ending at the write index) are *)
(* the h_sub_len most recently pushed samples in push order, zeros         *)
(* standing for the samples before the first push.                         *)
(***************************************************************************)
ExecWindow ==
    IF tier = "q31" THEN firpfb_q31_execute(fb, 0).win
    ELSE firpfb_q15_execute(fb, 0).win

LastPushed ==
    [t \in 0..(fb.h_sub_len - 1) |->
        LET k == pushed - fb.h_sub_len + 1 + t
        IN IF k < 1 THEN ZeroSample
           ELSE IF tier = "q31" THEN ToQ31(InputSample(k))
           ELSE InputSample(k)]

C2_WindowHoldsLastPushed ==
    (pc = "idle" /\ tier # "none" /\ pushed >= 1)
        => ExecWindow = LastPushed

(***************************************************************************)
(* C3: in every execute call, at every loop iteration, mu is in [0, 1) and *)
(* b is in [0, npfb) before the filterbank is queried, and every phase     *)
(* passed to the filterbank is in [0, npfb).                               *)
(***************************************************************************)
C3_QueryInRange ==
    last.op = "execute" =>
        \A k \in 1..Len(last.iters) :
            LET it == last.iters[k] IN
            /\ FInUnit(it.mu)
            /\ it.b >= 0 /\ it.b < rs.npfb
            /\ \A p \in 1..Len(it.phases) :
                  it.phases[p] >= 0 /\ it.phases[p] < rs.npfb

(***************************************************************************)
(* C4: an iteration that starts in INTERP with b = npfb - 1 queries that   *)
(* phase into y0, emits nothing, is the last of its call and leaves the    *)
(* resampler in BOUNDARY; a call that starts in BOUNDARY pushes its input, *)
(* then its first iteration emits the deferred output from the saved y0,   *)
(* phase 0 of the advanced window and the saved mu, and goes back to       *)
(* INTERP; the BOUNDARY branch runs only as the first iteration of a call. *)
(***************************************************************************)
C4_BoundaryDeferral ==
    last.op = "execute" =>
        LET its == last.iters
            L   == Len(its)
        IN /\ \A k \in 1..L :
                (its[k].state = "INTERP" /\ its[k].b = rs.npfb - 1) =>
                    /\ ~its[k].emit
                    /\ its[k].phases = <<rs.npfb - 1>>
                    /\ its[k].state2 = "BOUNDARY"
                    /\ k = L
                    /\ last.n = L - 1
                    /\ last.status = "returned"
                    /\ rs.state = "BOUNDARY"
                    /\ rs.mu = its[k].mu
                    /\ rs.y0 = firpfb_q31_execute(rs.pfb, rs.npfb - 1)
           /\ \A k \in 1..L : its[k].state = "BOUNDARY" => k = 1
           /\ last.pre.state = "BOUNDARY" =>
                /\ L >= 1
                /\ its[1].state = "BOUNDARY"
                /\ its[1].emit
                /\ its[1].phases = <<0>>
                /\ its[1].state2 = "INTERP"
                /\ last.y[1] = [mu |-> last.pre.mu, y0 |-> last.pre.y0,
                                y1 |-> firpfb_q31_execute(rs.pfb, 0)]
                /\ last.y[1].y1.win[rs.pfb.h_sub_len - 1]
                       = ToQ31(InputSample(nIn))
           /\ (rs.state = "BOUNDARY") =>
                (L >= 1 /\ its[L].state = "INTERP" /\ ~its[L].emit)

\* a call that started in BOUNDARY, emitted the deferred output and more,
\* and deferred again
C4_Witness ==
    /\ last.op = "execute"
    /\ last.pre.state = "BOUNDARY"
    /\ last.status = "returned"
    /\ last.n >= 2
    /\ rs.state = "BOUNDARY"

(***************************************************************************)
(* C5: a single execute call emits at most ceil(rate) + 1 output samples   *)
(* (and so ends without writing past a buffer of that many entries).       *)
(***************************************************************************)
C5_AtMostCeilPlusOne ==
    last.op = "execute" =>
        /\ last.status # "stuck"
        /\ last.n <= CeilOf(rs.rate) + 1

(***************************************************************************)
(* C6: with a constant rate >= 1, every execute call emits floor(rate) or  *)
(* ceil(rate) output samples.                                              *)
(***************************************************************************)
C6_FloorOrCeil ==
    (Returned /\ constRate /\ FGeqOne(rate0)) =>
        last.n \in {FloorOf(rate0), CeilOf(rate0)}

\* C6 as amended: with a constant rate, 1 <= rate <= npfb, every execute
\* call returns and emits floor(rate) or ceil(rate) output samples, except
\* the first call at rate = npfb, which emits npfb - 1 (its last output is
\* deferred to the second call).
C6_FloorOrCeilUpToNpfb ==
    (last.op = "execute" /\ constRate /\ FGeqOne(rate0)
        /\ ~FLess(FOfInt(rs.npfb), rate0)) =>
        /\ last.status = "returned"
        /\ \/ last.n \in {FloorOf(rate0), CeilOf(rate0)}
           \/ nIn = 1 /\ rate0 = FOfInt(rs.npfb) /\ last.n = rs.npfb - 1

\* the first call at rate = npfb = 4 has returned 3 samples
C6_Witness ==
    /\ last.op = "execute" /\ constRate
    /\ nIn = 1 /\ rate0 = FOfInt(4) /\ rs.npfb = 4 /\ last.n = 3

(***************************************************************************)
(* C7: filterbank construction aborts exactly when h_len is not a multiple *)
(* of nf or h_len / nf differs from the tap count of the tier (16 for Q15, *)
(* NUM_TAPS = 16 or 8 for Q31), and yields a filterbank otherwise.         *)
(***************************************************************************)
C7_CreatePreconditions ==
    (last.op = "create" /\ tier # "none") =>
        LET good == /\ last.h_len % last.nf = 0
                    /\ last.h_len \div last.nf = last.taps
        IN /\ last.taps = (IF tier = "q15" THEN 16 ELSE numTaps)
           /\ last.ok <=> good
           /\ ~good => (pc = "aborted" /\ fb = Uninit)
           /\ good => /\ pc = "idle"
                      /\ fb.nf = last.nf
                      /\ fb.h_len = last.h_len
                      /\ fb.h_sub_len = last.taps

\* a construction that aborted although h_len / nf gives the tap count,
\* because h_len is not a multiple of nf
C7_Witness ==
    /\ last.op = "create" /\ tier = "q15"
    /\ last.h_len % last.nf # 0
    /\ last.h_len \div last.nf = last.taps
    /\ pc = "aborted"

(***************************************************************************)
(* C8: a resampler can be constructed with m = 2 and npfb = 4.             *)
(***************************************************************************)
C8_TestConfigConstructs ==
    (last.op = "create" /\ tier = "none" /\ last.m = 2 /\ last.npfb = 4)
        => (last.ok /\ pc = "idle")

\* C8 as amended: resamp_q15_create hands the filterbank the length
\* 2 * m * npfb, a multiple of npfb with 2 * m taps per phase, so that a
\* resampler is constructed exactly when 2 * m is the NUM_TAPS of the build
\* (m = 8, or m = 4 with USE_FAST_MATH); with m = 2 and npfb = 4 create
\* aborts.
C8_ConstructsIffTapsMatch ==
    (last.op = "create" /\ tier = "none") =>
        /\ last.ok <=> (2 * last.m = numTaps)
        /\ last.ok => /\ pc = "idle"
                      /\ rs.pfb.h_len = 2 * last.m * last.npfb
                      /\ rs.pfb.h_sub_len = 2 * last.m
                      /\ rs.pfb.nf = last.npfb
        /\ ~last.ok => (pc = "aborted" /\ rs = Uninit)

\* create with m = 2, npfb = 4 has aborted
C8_Witness ==
    /\ last.op = "create" /\ tier = "none"
    /\ last.m = 2 /\ last.npfb = 4
    /\ pc = "aborted"

(***************************************************************************)
(* C9: set_rate is callable in INTERP and in BOUNDARY; it sets rate and    *)
(* del = 1 / rate and leaves tau, bf, b, mu, y0, y1, the machine state and *)
(* the filterbank as they were; del = 1 / rate in every reachable state.   *)
(***************************************************************************)
DelIsInverseRate == rs # Uninit => rs.del = FDiv(FOne, rs.rate)

SetRateFrame ==
    (nSet' = nSet + 1) =>
        /\ rs'.rate = last'.rate
        /\ rs'.del = FDiv(FOne, last'.rate)
        /\ rs'.tau = rs.tau /\ rs'.bf = rs.bf /\ rs'.b = rs.b
        /\ rs'.mu = rs.mu /\ rs'.y0 = rs.y0 /\ rs'.y1 = rs.y1
        /\ rs'.state = rs.state /\ rs'.pfb = rs.pfb /\ rs'.npfb = rs.npfb
        /\ pc' = pc /\ nIn' = nIn /\ nOut' = nOut

C9_SetRate == []DelIsInverseRate /\ [][SetRateFrame]_vars

\* set_rate has just been called in BOUNDARY with a new rate
C9_Witness ==
    /\ last.op = "set_rate"
    /\ rs.state = "BOUNDARY"
    /\ rs.rate # FOne
    /\ rs.del # FOne

(***************************************************************************)
(* C10: every execute call terminates: each emitting iteration strictly    *)
(* increases tau, and the loop ends.                                       *)
(***************************************************************************)
C10_ExecuteTerminates ==
    last.op = "execute" =>
        /\ last.status # "stuck"
        /\ \A k \in 1..Len(last.iters) :
              last.iters[k].emit =>
                  FLess(last.iters[k].tau, last.iters[k].tau2)

(***************************************************************************)
(* C11: while every execute call so far ran at rate 1 (the rate at         *)
(* creation), each call returns exactly one output, made in one loop       *)
(* iteration that starts in INTERP with b = 0 and mu = 0 and queries       *)
(* phases 0 and 1; the output is the interpolation with weight 0 of the    *)
(* phase-0 filter over the window that ends with the sample just pushed,   *)
(* and the resampler is left in INTERP with tau = 0, b = 0, mu = 0.        *)
(***************************************************************************)
C11_UnitRateOneOutput ==
    (last.op = "execute" /\ constRate /\ rate0 = FOne) =>
        /\ last.status = "returned"
        /\ last.n = 1
        /\ Len(last.iters) = 1
        /\ last.iters[1].state = "INTERP"
        /\ last.iters[1].b = 0
        /\ last.iters[1].mu = FZero
        /\ last.iters[1].phases = <<0, 1>>
        /\ last.y[1].mu = FZero
        /\ last.y[1].y0 = firpfb_q31_execute(rs.pfb, 0)
        /\ last.y[1].y0.win[rs.pfb.h_sub_len - 1] = ToQ31(InputSample(nIn))
        /\ rs.state = "INTERP"
        /\ rs.tau = FZero /\ rs.b = 0 /\ rs.mu = FZero

\* the third call in a row at rate 1 has returned, the first of them after a
\* set_rate(1)
C11_Witness ==
    /\ last.op = "execute" /\ constRate /\ rate0 = FOne
    /\ nIn >= 3 /\ nSet >= 1
    /\ last.n = 1

(***************************************************************************)
(* C12: right after a resamp_q15_create that returned, rate = 1, del = 1,  *)
(* tau = 0, b = 0, mu = 0 and state = INTERP, for every accepted m and     *)
(* npfb; npfb is the one given.                                            *)
(***************************************************************************)
C12_CreateInitialState ==
    (last.op = "create" /\ tier = "none" /\ last.ok) =>
        /\ rs.rate = FOne
        /\ rs.del = FOne
        /\ rs.tau = FZero
        /\ rs.b = 0
        /\ rs.mu = FZero
        /\ rs.state = "INTERP"
        /\ rs.npfb = last.npfb

\* a create that returned, in the USE_FAST_MATH build
C12_Witness ==
    /\ last.op = "create" /\ tier = "none" /\ last.ok
    /\ numTaps = NUM_TAPS_FAST
    /\ pc = "idle" /\ rs # Uninit

(***************************************************************************)
(* C13: between execute calls (after the re-basing step) the accumulated   *)
(* timing phase satisfies 0 <= tau < 1, for every rate > 0 and every       *)
(* sequence of calls.                                                      *)
(***************************************************************************)
C13_TauInUnit ==
    Returned => FInUnit(rs.tau)

(***************************************************************************)
(* C14: once update_timing_state has run, bf = tau * npfb = b + mu at      *)
(* every loop head and between execute calls, in INTERP and in BOUNDARY.   *)
(* Equality of floats is taken up to their rounding: a difference below    *)
(* 2^-20.                                                                  *)
(***************************************************************************)
\* |x| < 2^-20
FNear0(x) == x.m = 0 \/ x.e + 24 <= -20

\* bf = tau * npfb
BfIsTauNpfb(t, np) == FNear0(FSub(t.bf, FMulInt(t.tau, np)))

\* bf = b + mu + off
BfIsBPlusMu(t, off) ==
    FNear0(FSub(t.bf, FAdd(FAdd(UIntToFloat(t.b), t.mu), FOfInt(off))))

\* the timing states at the loop heads of the last call that started an
\* iteration, and after it if it returned
LoopHeads == { last.iters[k] : k \in 1..Len(last.iters) }
TimingPoints ==
    { t \in LoopHeads \cup (IF last.status = "returned" THEN {rs} ELSE {}) :
        t.bf # Uninit }

C14_BfRelation ==
    last.op = "execute" =>
        \A t \in TimingPoints : BfIsTauNpfb(t, rs.npfb) /\ BfIsBPlusMu(t, 0)

(***************************************************************************)
(* C15: after each push the write index idx is in [h_sub_len, WINDOW_SIZE] *)
(* and every window entry written lies in [0, WINDOW_SIZE); an execute     *)
(* issued after at least one push reads the entries idx - h_sub_len ..     *)
(* idx - 1, all in [0, WINDOW_SIZE); a push advances idx by one, except    *)
(* that a push that finds idx = WINDOW_SIZE, and only such a push,         *)
(* compacts and leaves idx = h_sub_len.                                    *)
(***************************************************************************)
WindowInBounds ==
    (pc = "idle" /\ tier # "none" /\ pushed >= 1) =>
        /\ fb.h_sub_len <= fb.idx /\ fb.idx <= WINDOW_SIZE
        /\ DOMAIN fb.window \subseteq 0..(WINDOW_SIZE - 1)
        /\ 0 <= fb.idx - fb.h_sub_len
        /\ fb.idx - 1 < WINDOW_SIZE

PushMovesIndex ==
    (pc = "idle" /\ tier # "none" /\ pushed' = pushed + 1) =>
        IF fb.idx = WINDOW_SIZE
        THEN fb'.idx = fb.h_sub_len
        ELSE fb'.idx = fb.idx + 1 /\ fb.idx \in DOMAIN fb'.window

C15_WindowFixedSize == []WindowInBounds /\ [][PushMovesIndex]_vars

\* a push has just compacted the window
C15_Witness ==
    /\ last.op = "push" /\ last.compacted
    /\ fb.idx = fb.h_sub_len
    /\ pushed > WINDOW_SIZE - fb.h_sub_len

(***************************************************************************)
(* C16: the coefficient table of a filterbank has 2 * h_len slots; for     *)
(* phase i and tap j the two adjacent slots 2 * (i * h_sub_len + j) and    *)
(* the next hold prototype coefficient (h_sub_len - 1 - j) * nf + i; every *)
(* prototype index in [0, h_len) is held by exactly one (phase, tap).      *)
(***************************************************************************)
C16_TableIsRearrangement ==
    (pc = "idle" /\ tier # "none") =>
        /\ DOMAIN fb.h = 0..(2 * fb.h_len - 1)
        /\ \A i \in 0..(fb.nf - 1), j \in 0..(fb.h_sub_len - 1) :
              LET slot == 2 * (i * fb.h_sub_len + j) IN
              /\ fb.h[slot] = (fb.h_sub_len - 1 - j) * fb.nf + i
              /\ fb.h[slot + 1] = fb.h[slot]
        /\ \A k \in 0..(fb.h_len - 1) :
              Cardinality({ p \in 0..(fb.h_len - 1) : fb.h[2 * p] = k }) = 1

\* a Q31 filterbank of 4 phases and 64 coefficients, and a Q15 one would do
\* as well, has been created and pushed into
C16_Witness ==
    /\ pc = "idle" /\ tier = "q31"
    /\ fb.nf = 4 /\ fb.h_len = 64 /\ fb.h_sub_len = 16
    /\ pushed >= 1

(***************************************************************************)
(* C17: in both tiers the table value of a coefficient x in [-1, 1] is an  *)
(* integer nearest to x * (2^k - 1), k = 15 for Q15 and k = 31 for Q31.    *)
(***************************************************************************)
\* h is an integer nearest to x * (2^k - 1), for a float x in [-1, 1]: with
\* |x| = m / 2^n, m odd, and a = h or -h by the sign of x,
\* 2 * |2^n a - (2^k m - m)| <= 2^n.  With 2^k m = 2^n q + 2^k r the left
\* side is 2 * |2^n (a - q) - 2^k r + m|; |a - q| > 2 puts a too far.
\* (n <= 30, as for every coefficient of the model.)
IsNearest(h, x, k) ==
    IF x.m = 0 THEN h = 0
    ELSE IF h = INT32_MIN THEN FALSE
    ELSE LET me == Reduced(x.m, x.e)
             m  == me[1]
             n  == -me[2]
             a  == IF x.s = 1 THEN -h ELSE h
         IN IF a < 0 THEN FALSE
            ELSE IF n = 0 THEN a = (2^(k - 1) - 1) + 2^(k - 1)
            ELSE LET q == IF n >= k THEN m \div 2^(n - k) ELSE m * 2^(k - n)
                     r == IF n >= k THEN m % 2^(n - k) ELSE 0
                 IN /\ a - q <= 2 /\ q - a <= 2
                    /\ LET D == 2^n * (a - q)
                                - (IF r = 0 THEN 0 ELSE 2^k * r) + m
                       IN -(2^(n - 1)) <= D /\ D <= 2^(n - 1)

C17_QuantizeNearest ==
    qz.op = "quantized" =>
        IsNearest(qz.h, qz.x, IF qz.tier = "q15" THEN 15 ELSE 31)

(***************************************************************************)
(* C18: every SIMD dot product of a tier computes over the operands of the *)
(* scalar one, the h_sub_len window samples ending at the write index and  *)
(* the coefficients of the requested phase and nothing else, and its       *)
(* result has the sign of the scalar result.                               *)
(***************************************************************************)
C18_BackendsAgree ==
    (last.op = "execute" /\ tier # "none") =>
        \A r \in last.simd :
            /\ r.ops.win = last.y.win
            /\ r.ops.cor = last.y.co
            /\ r.ops.coi = last.y.co
            /\ r.sign = 1

(***************************************************************************)
(* Helpers of the output queue properties.                                 *)
(***************************************************************************)
\* the buffers met from ob along the next fields, in at most fuel steps
RECURSIVE Chain(_, _, _)
Chain(s, ob, fuel) ==
    IF ob = NULL \/ fuel = 0 THEN <<>>
    ELSE <<ob>> \o Chain(s, s.next[ob], fuel - 1)

\* the list from ob ends at NULL without meeting a buffer twice
Acyclic(s, ob) == ListEnd(s, ob, NumBufs) # Endless

FreeList == Chain(st, st.free, NumBufs + 1)
HeadList == Chain(st, st.head, NumBufs + 1)

\* the producer holds its buffer from taking it to appending it
ProducerHolds(b) == caller.pc \in {"push_copy", "push_copied"} /\ caller.ob = b

\* the worker holds its buffer from unlinking it to pushing it on the free
\* list
WorkerHolds(b) ==
    /\ worker.pc \in {"fixtail", "play_start", "play", "played", "free_link",
                     "free_link_store", "free_push"}
    /\ worker.ob = b

\* the number of places buffer b is in
Places(b) ==
    Cardinality({i \in 1..Len(FreeList) : FreeList[i] = b})
    + Cardinality({i \in 1..Len(HeadList) : HeadList[i] = b})
    + (IF ProducerHolds(b) THEN 1 ELSE 0)
    + (IF WorkerHolds(b) THEN 1 ELSE 0)

\* output_reset_buffers is between its first and its last statement
InReset ==
    caller.pc \in {"reset_walk", "reset_step", "reset_link",
                   "reset_link_store", "reset_free", "reset_free_store",
                   "reset_head", "reset_tail"}

(***************************************************************************)
(* C19: under every interleaving of the caller thread (output_push, and    *)
(* output_reset calling output_reset_buffers) with output_worker, every    *)
(* pool buffer is in exactly one place - the free list, the head list,     *)
(* held by the producer or held by the worker - and both lists are         *)
(* acyclic; output_reset_buffers is looked at before and after it runs.    *)
(***************************************************************************)
C19_BuffersConserved ==
    (st # Uninit /\ ~InReset) =>
        /\ Acyclic(st, st.free)
        /\ Acyclic(st, st.head)
        /\ \A b \in Buffers : Places(b) = 1

\* output_push is back at the test of line 150 after a wait that timed out
\* and the output_reset_buffers of line 155
AfterTimeoutReset ==
    st # Uninit /\ caller.pc = "push_test" /\ caller.timedOut

(***************************************************************************)
(* C20: output_push never waits indefinitely for a free buffer: when its   *)
(* wait times out it moves every queued buffer back to the free list,      *)
(* after which the free list is non-empty, so that the push takes a buffer *)
(* and returns even if the worker never returns from playback; the walk of *)
(* output_reset_buffers ends.                                              *)
(***************************************************************************)
C20_TimeoutFreesABuffer ==
    /\ AfterTimeoutReset => st.free # NULL
    /\ st # Uninit => caller.pc # "hung"

\* ao_play has been called on the worker's buffer in this round of its loop
WorkerPlays ==
    worker.pc \in {"play", "played", "free_link", "free_link_store",
                   "free_push", "signal"}

\* no statement of a critical section or of output_reset_buffers is half
\* done
Quiescent == mutex = "none" /\ ~InReset

\* the frames are played in the order of their numbers, which is the order
\* output_push enqueued them in, and none twice
PlayedInOrder == WorkerPlays => worker.prev < worker.cur /\ ~worker.torn

\* head is NULL exactly when tail is, and tail ends the head list
HeadTailConsistent ==
    Quiescent =>
        /\ (st.head = NULL) <=> (st.tail = NULL)
        /\ st.head # NULL => st.tail = ListEnd(st, st.head, NumBufs)

\* a frame a timed-out wait reclaimed is not played
DroppedNotPlayed == WorkerPlays => worker.cur \notin caller.dropped

\* the buffer being played is not the one the producer copies into
NotPlayedWhileFilled ==
    ~(worker.pc = "play" /\ caller.pc = "push_copy"
      /\ worker.ob = caller.ob)

(***************************************************************************)
(* C21: output_worker plays the buffers in exactly the order output_push   *)
(* enqueued them; head is NULL exactly when tail is NULL and otherwise     *)
(* tail is the last node reachable from head; a buffer reclaimed by a      *)
(* timeout reset is never played with its old contents; and the worker     *)
(* never plays a buffer the producer is filling.                           *)
(***************************************************************************)
C21_PlayedAsQueued ==
    st # Uninit =>
        /\ PlayedInOrder
        /\ HeadTailConsistent
        /\ DroppedNotPlayed
        /\ NotPlayedWhileFilled

\* buffer b is on the head list
InHeadList(b) == \E i \in 1..Len(HeadList) : HeadList[i] = b

\* the worker is blocked in pthread_cond_wait with buffers queued
BlockedWithWork == worker.pc = "wait" /\ st.head # NULL

(***************************************************************************)
(* C22: no wake-up is lost on the condition variable shared by producer    *)
(* and worker: when playback calls return, every buffer output_push        *)
(* enqueued is eventually dequeued by output_worker or reclaimed by a      *)
(* reset, and the worker does not stay blocked while the head list is      *)
(* non-empty.                                                              *)
(***************************************************************************)
C22_NoLostWakeup ==
    /\ \A b \in Buffers : InHeadList(b) ~> ~InHeadList(b)
    /\ BlockedWithWork ~> ~BlockedWithWork

====
